---- MODULE Spec2Model ----
(***************************************************************************)
(* Model of crates/executor/src/types.rs: the translation of an execution  *)
(* engine call record (blockifier CallInfo) into a FunctionInvocation,     *)
(* FunctionInvocation::try_from, together with the merge of L2-to-L1       *)
(* messages, ordered_l2_to_l1_messages, and the Event conversion.          *)
(*                                                                         *)
(* try_from is recursive.  It is modelled as a machine with an explicit    *)
(* call stack: one frame per active try_from call, one action per          *)
(* statement of the function body.                                         *)
(*                                                                         *)
(* Integers.  A usize is a 64 bit word.  TLC's integers are narrower, so a *)
(* word that is cast (the event order, types.rs:225) is kept as a pair     *)
(* <<q, r>> standing for the integer q * 2^63 + r with 0 <= r < 2^63:      *)
(* q is bit 63 of the word, r its low 63 bits.  Two pairs are equal        *)
(* exactly when the integers are.  Message order keys are never cast and   *)
(* are plain naturals.                                                     *)
(***************************************************************************)
EXTENDS Integers, Sequences, FiniteSets, TLC

\* Bounds of the model.
MaxCalls == 3
MaxMsgs == 2
MaxEvents == 1

VARIABLES
    call_info,   \* the engine's call tree: record c is call_info[c]; record 1 is the root
    stack,       \* the active try_from calls, innermost last
    returning,   \* the value a try_from call has just returned to its caller
    returned,    \* history: what the try_from call on each record returned
    log          \* history: the statements executed, as <<statement, record>>

vars == <<call_info, stack, returning, returned, log>>

(***************************************************************************)
(* Values                                                                  *)
(***************************************************************************)
StarkFelt(n) == <<"StarkFelt", n>>
EthAddress(n) == <<"EthAddress", n>>
Felt(n) == <<"Felt", n>>

\* IntoFelt::into_felt: the engine's field element re-encoded as a Felt, same value.
into_felt(x) == Felt(x[2])

\* Felt::from_be_slice(to_address.0.as_bytes()).expect(..): 160 bits always fit.
from_be_slice(a) == Felt(a[2])

None == [kind |-> "None"]
Ok(v) == [kind |-> "Ok", val |-> v]
Err(e) == [kind |-> "Err", err |-> e]

InvalidOrder(order, max_order) ==
    [type |-> "InvalidOrder", object |-> "L2-to-L1 message", order |-> order, max_order |-> max_order]
UnexpectedHoles(order) ==
    [type |-> "UnexpectedHoles", object |-> "L2-to-L1 message", order |-> order]

(***************************************************************************)
(* Sequence helpers                                                        *)
(***************************************************************************)
Last(s) == s[Len(s)]
Front(s) == SubSeq(s, 1, Len(s) - 1)
Reverse(s) == [i \in 1..Len(s) |-> s[Len(s) + 1 - i]]
Range(s) == {s[i] : i \in 1..Len(s)}
Min(S) == CHOOSE x \in S : \A y \in S : x <= y

RECURSIVE Ascending(_)
Ascending(S) == IF S = {} THEN <<>> ELSE <<Min(S)>> \o Ascending(S \ {Min(S)})

RECURSIVE Flatten(_)
Flatten(ss) == IF ss = <<>> THEN <<>> ELSE Head(ss) \o Flatten(Tail(ss))

(***************************************************************************)
(* The call tree                                                           *)
(***************************************************************************)
Calls(ci) == 1..Len(ci)

\* call_info.inner_calls: the children of record c, in the engine's order.
inner_calls(ci, c) == Ascending({d \in Calls(ci) : ci[d].parent = c})

\* blockifier's CallInfoIter, as `for call in call_info.into_iter()` drives it:
\* pop a record off the stack, push its inner calls right to left, yield it.
RECURSIVE CallInfoIter(_, _)
CallInfoIter(ci, st) ==
    IF st = <<>> THEN <<>>
    ELSE LET c == Last(st)
         IN  <<c>> \o CallInfoIter(ci, Front(st) \o Reverse(inner_calls(ci, c)))

into_iter(ci, c) == CallInfoIter(ci, <<c>>)

\* The messages met by the two nested loops of types.rs:248-249, each with the
\* record that emitted it.
Emitted(ci, c) ==
    LET calls == into_iter(ci, c)
    IN  Flatten([i \in 1..Len(calls) |->
            [j \in 1..Len(ci[calls[i]].l2_to_l1_messages) |->
                [call |-> calls[i], msg |-> ci[calls[i]].l2_to_l1_messages[j]]]])

(***************************************************************************)
(* CallInfo::get_sorted_l2_to_l1_payloads_length, called at types.rs:150.   *)
(* The method belongs to the execution engine (blockifier), whose code is  *)
(* not part of this crate.  It is modelled by its contract: one slot per   *)
(* message of the record's subtree; an order key outside the slots is      *)
(* InvalidOrder, a slot that no message fills is UnexpectedHoles, and the  *)
(* Ok value lists the payload lengths by order key.  The same holds for    *)
(* CallInfoIter above, the engine's pre-order iterator over a call tree.   *)
(***************************************************************************)
RECURSIVE FillSlots(_, _, _)
FillSlots(ms, slots, n_messages) ==
    IF ms = <<>> THEN Ok(slots)
    ELSE LET m == Head(ms).msg
         IN  IF m.order >= n_messages
             THEN Err(InvalidOrder(m.order, n_messages))
             ELSE FillSlots(Tail(ms),
                            [slots EXCEPT ![m.order] = Len(m.message.payload)],
                            n_messages)

get_sorted_l2_to_l1_payloads_length(ci, c) ==
    LET ms == Emitted(ci, c)
        n_messages == Len(ms)
        filled == FillSlots(ms, [k \in 0..(n_messages - 1) |-> -1], n_messages)
    IN  IF filled.kind = "Err" THEN filled
        ELSE LET holes == {k \in 0..(n_messages - 1) : filled.val[k] = -1}
             IN  IF holes # {} THEN Err(UnexpectedHoles(Min(holes)))
                 ELSE Ok([k \in 1..n_messages |-> filled.val[k - 1]])

(***************************************************************************)
(* ordered_l2_to_l1_messages, types.rs:243-264                             *)
(***************************************************************************)
\* Faulty variant of BTreeInsert: an existing key keeps its value.
BTreeFirstWins(map, k, v) ==
    [x \in DOMAIN map \cup {k} |-> IF x \in DOMAIN map THEN map[x] ELSE v]
\* BTreeMap::insert: the value under an existing key is replaced.
BTreeInsert(map, k, v) ==
    [x \in DOMAIN map \cup {k} |-> IF x = k THEN v ELSE map[x]]

\* Faulty variant of IntoValues: the values in descending key order.
IntoValuesDescending(map) ==
    Reverse([i \in 1..Cardinality(DOMAIN map) |-> map[Ascending(DOMAIN map)[i]]])
\* BTreeMap::into_values().collect(): the values in ascending key order.
IntoValues(map) ==
    [i \in 1..Cardinality(DOMAIN map) |-> map[Ascending(DOMAIN map)[i]]]

\* Faulty variant of MsgToL1: the address of the record the merge started from.
MsgFromMergeRoot(ci, root, call, m) ==
    [order |-> m.order,
     payload |-> [i \in 1..Len(m.message.payload) |-> into_felt(m.message.payload[i])],
     to_address |-> from_be_slice(m.message.to_address),
     from_address |-> into_felt(ci[root].storage_address)]
\* The MsgToL1 built at types.rs:252-258 for a message met while visiting `call`
\* in the merge started from `root`: from_address is read from `call`.
MsgToL1(ci, root, call, m) ==
    [order |-> m.order,
     payload |-> [i \in 1..Len(m.message.payload) |-> into_felt(m.message.payload[i])],
     to_address |-> from_be_slice(m.message.to_address),
     from_address |-> into_felt(ci[call].storage_address)]

RECURSIVE InsertAll(_, _, _, _)
InsertAll(ci, root, ms, map) ==
    IF ms = <<>> THEN map
    ELSE InsertAll(ci, root, Tail(ms),
                   BTreeInsert(map, Head(ms).msg.order,
                               MsgToL1(ci, root, Head(ms).call, Head(ms).msg)))

ordered_l2_to_l1_messages(ci, c) ==
    IntoValues(InsertAll(ci, c, Emitted(ci, c), <<>>))

(***************************************************************************)
(* impl From<OrderedEvent> for Event, types.rs:222-241                     *)
(***************************************************************************)
\* `value.order as i64`: the same 64 bits read as two's complement, that is
\* the word minus 2^64 when bit 63 is set.
AsI64(u) == IF u[1] = 0 THEN u ELSE <<u[1] - 2, u[2]>>

EventFrom(value) ==
    [order |-> AsI64(value.order),
     data |-> [i \in 1..Len(value.event.data) |-> into_felt(value.event.data[i])],
     keys |-> [i \in 1..Len(value.event.keys) |-> into_felt(value.event.keys[i])]]

(***************************************************************************)
(* FunctionInvocation::try_from, types.rs:147-198                          *)
(***************************************************************************)
\* Faulty variant of EntryPc: the body starts at the merge, unvalidated.
EntryPcMerge == "merge"
\* The first statement of the body (types.rs:150).
EntryPc == "validate"

NewFrame(c) ==
    [call |-> c, pc |-> EntryPc, messages |-> <<>>, next |-> 1, internal_calls |-> <<>>,
     events |-> <<>>, result |-> <<>>]

\* Faulty variant of ChildAt: the inner calls taken right to left.
ChildAtReversed(ci, c, i) == Reverse(inner_calls(ci, c))[i]
\* The record the i-th step of `inner_calls.into_iter().map(TryInto::try_into)` translates.
ChildAt(ci, c, i) == inner_calls(ci, c)[i]

\* Faulty variant of Collect: the item is put in front.
CollectPrepend(calls, inv) == <<inv>> \o calls
\* collect::<Result<Vec<_>, _>>(): an Ok item is pushed onto the vector.
Collect(calls, inv) == Append(calls, inv)

\* The value of `Ok(Self { .. })`, types.rs:174-197.
Invocation(ci, f) ==
    [calldata |-> [i \in 1..Len(ci[f.call].calldata) |-> into_felt(ci[f.call].calldata[i])],
     contract_address |-> into_felt(ci[f.call].storage_address),
     internal_calls |-> f.internal_calls,
     events |-> f.events,
     messages |-> f.messages,
     result |-> f.result]

Top == Last(stack)
Running == stack # <<>>
SetTop(f) == [stack EXCEPT ![Len(stack)] = f]

\* Faulty variant of OrderingChecked: the validation's Result is discarded.
OrderingIgnored(ci, c) == Ok(<<>>)
\* The Result that `?` inspects at types.rs:150.
OrderingChecked(ci, c) == get_sorted_l2_to_l1_payloads_length(ci, c)

\* types.rs:150, `call_info.get_sorted_l2_to_l1_payloads_length()?`
Validate ==
    /\ Running /\ Top.pc = "validate"
    /\ LET r == OrderingChecked(call_info, Top.call)
       IN  IF r.kind = "Err"
           THEN /\ stack' = Front(stack)
                /\ returning' = Err(r.err)
                /\ returned' = [returned EXCEPT ![Top.call] = Err(r.err)]
           ELSE /\ stack' = SetTop([Top EXCEPT !.pc = "merge"])
                /\ UNCHANGED <<returning, returned>>
    /\ log' = Append(log, <<"validate", Top.call>>)
    /\ UNCHANGED call_info

\* types.rs:151, `let messages = ordered_l2_to_l1_messages(&call_info);`
Merge ==
    /\ Running /\ Top.pc = "merge"
    /\ stack' = SetTop([Top EXCEPT !.pc = "children",
                                   !.messages = ordered_l2_to_l1_messages(call_info, Top.call)])
    /\ log' = Append(log, <<"merge", Top.call>>)
    /\ UNCHANGED <<call_info, returning, returned>>

\* types.rs:153-157: the next inner call is translated by a recursive try_from.
CallChild ==
    /\ Running /\ Top.pc = "children" /\ returning = None
    /\ Top.next <= Len(inner_calls(call_info, Top.call))
    /\ stack' = Append(SetTop([Top EXCEPT !.next = @ + 1]),
                       NewFrame(ChildAt(call_info, Top.call, Top.next)))
    /\ log' = Append(log, <<"call", Top.call>>)
    /\ UNCHANGED <<call_info, returning, returned>>

\* types.rs:157: the recursive call returned Ok, collect keeps the Invocation.
ChildOk ==
    /\ Running /\ Top.pc = "children" /\ returning.kind = "Ok"
    /\ stack' = SetTop([Top EXCEPT !.internal_calls = Collect(@, returning.val)])
    /\ returning' = None
    /\ UNCHANGED <<call_info, returned, log>>

\* Faulty variant of ChildErr: the error is dropped and the iteration goes on.
ChildErrSwallowed ==
    /\ Running /\ Top.pc = "children" /\ returning.kind = "Err"
    /\ returning' = None
    /\ UNCHANGED <<call_info, stack, returned, log>>
\* types.rs:157: the recursive call returned Err, collect stops and `?` returns it.
ChildErr ==
    /\ Running /\ Top.pc = "children" /\ returning.kind = "Err"
    /\ stack' = Front(stack)
    /\ returned' = [returned EXCEPT ![Top.call] = returning]
    /\ UNCHANGED <<call_info, returning, log>>

\* types.rs:157-164: every inner call is translated; the local events are mapped.
MapEvents ==
    /\ Running /\ Top.pc = "children" /\ returning = None
    /\ Top.next > Len(inner_calls(call_info, Top.call))
    /\ stack' = SetTop([Top EXCEPT !.pc = "retdata",
                                   !.events = [i \in 1..Len(call_info[Top.call].events) |->
                                                  EventFrom(call_info[Top.call].events[i])]])
    /\ log' = Append(log, <<"events", Top.call>>)
    /\ UNCHANGED <<call_info, returning, returned>>

\* types.rs:166-172
MapRetdata ==
    /\ Running /\ Top.pc = "retdata"
    /\ stack' = SetTop([Top EXCEPT !.pc = "construct",
                                   !.result = [i \in 1..Len(call_info[Top.call].retdata) |->
                                                  into_felt(call_info[Top.call].retdata[i])]])
    /\ log' = Append(log, <<"retdata", Top.call>>)
    /\ UNCHANGED <<call_info, returning, returned>>

\* types.rs:174-197
Construct ==
    /\ Running /\ Top.pc = "construct"
    /\ stack' = Front(stack)
    /\ returning' = Ok(Invocation(call_info, Top))
    /\ returned' = [returned EXCEPT ![Top.call] = Ok(Invocation(call_info, Top))]
    /\ log' = Append(log, <<"construct", Top.call>>)
    /\ UNCHANGED call_info

Next ==
    \/ Validate
    \/ Merge
    \/ CallChild
    \/ ChildOk
    \/ ChildErr
    \/ MapEvents
    \/ MapRetdata
    \/ Construct

(***************************************************************************)
(* The inputs: every call tree of at most MaxCalls records, with at most   *)
(* MaxMsgs messages (Init) or MaxEvents events (InitEvents) in all.        *)
(***************************************************************************)
\* parent[c] < c: a record is numbered after its parent, siblings in engine order.
Shapes(n) ==
    {p \in [1..n -> 0..(n - 1)] : p[1] = 0 /\ \A c \in 2..n : p[c] \in 1..(c - 1)}

\* The storage address of each record; the root's is fixed, addresses being
\* interchangeable.
Addresses(n) == {a \in [1..n -> {1, 2}] : a[1] = 1}

\* What the records emitted: <<record, order key>> pairs, grouped by record and,
\* within a record, in emission order.
Emissions(n, max, Orders) ==
    UNION {{s \in [1..k -> (1..n) \X Orders] :
                \A i \in 1..(k - 1) : s[i][1] <= s[i + 1][1]} : k \in 0..max}

Of(s, c) == SelectSeq(s, LAMBDA e : e[1] = c)

\* Order keys a message may carry: those a tree of MaxMsgs messages may use, and one more.
MessageOrders == 0..MaxMsgs

\* Order keys an event may carry: 0, 1, 2^63 and 2^63 + 1.
EventOrders == {<<0, 0>>, <<0, 1>>, <<1, 0>>, <<1, 1>>}

\* The payload and the calldata tell the records and the messages apart.
CallRecord(c, p, a, ms, es) ==
    [parent |-> p[c],
     storage_address |-> StarkFelt(a[c]),
     calldata |-> <<StarkFelt(c)>>,
     retdata |-> <<StarkFelt(c)>>,
     l2_to_l1_messages |->
        [j \in 1..Len(Of(ms, c)) |->
            [order |-> Of(ms, c)[j][2],
             message |-> [payload |-> <<StarkFelt(c), StarkFelt(j)>>,
                          to_address |-> EthAddress(1)]]],
     events |->
        [j \in 1..Len(Of(es, c)) |->
            [order |-> Of(es, c)[j][2],
             event |-> [keys |-> <<StarkFelt(c)>>, data |-> <<StarkFelt(j)>>]]]]

Start(n, p, a, ms, es) ==
    /\ call_info = [c \in 1..n |-> CallRecord(c, p, a, ms, es)]
    /\ stack = <<NewFrame(1)>>
    /\ returning = None
    /\ returned = [c \in 1..n |-> None]
    /\ log = <<>>

Init ==
    \E n \in 1..MaxCalls : \E p \in Shapes(n) : \E a \in Addresses(n) :
        \E ms \in Emissions(n, MaxMsgs, MessageOrders) : Start(n, p, a, ms, <<>>)

InitEvents ==
    \E n \in 1..MaxCalls : \E p \in Shapes(n) :
        \E ms \in Emissions(n, MaxMsgs, MessageOrders) :
            \E es \in Emissions(n, MaxEvents, EventOrders) :
                Start(n, p, [c \in 1..n |-> 1], ms, es)

Spec == Init /\ [][Next]_vars
SpecEvents == InitEvents /\ [][Next]_vars

Done == stack = <<>>

(***************************************************************************)
(* Vocabulary of the properties, stated on the input tree itself           *)
(***************************************************************************)
RECURSIVE Ancestors(_, _)
Ancestors(ci, d) ==
    IF ci[d].parent = 0 THEN {} ELSE {ci[d].parent} \cup Ancestors(ci, ci[d].parent)

Subtree(ci, c) == {d \in Calls(ci) : d = c \/ c \in Ancestors(ci, d)}

\* The places of a subtree where a message was emitted: <<record, index>>.
Sites(ci, c) ==
    UNION {{<<d, j>> : j \in 1..Len(ci[d].l2_to_l1_messages)} : d \in Subtree(ci, c)}

KeyAt(ci, s) == ci[s[1]].l2_to_l1_messages[s[2]].order

\* The message emitted at a site as it must read in the output.
Canonical(ci, s) ==
    LET m == ci[s[1]].l2_to_l1_messages[s[2]]
    IN  [order |-> m.order,
         payload |-> [i \in 1..Len(m.message.payload) |-> Felt(m.message.payload[i][2])],
         to_address |-> Felt(m.message.to_address[2]),
         from_address |-> Felt(ci[s[1]].storage_address[2])]

StrictlyAscending(ms) == \A i \in 1..(Len(ms) - 1) : ms[i].order < ms[i + 1].order

KeysDistinct(ci, c) ==
    \A s, t \in Sites(ci, c) : s # t => KeyAt(ci, s) # KeyAt(ci, t)

Validation(c) == get_sorted_l2_to_l1_payloads_length(call_info, c)

Translated(c) == returned[c].kind = "Ok"
Failed(c) == returned[c].kind = "Err"

StatementsOf(c) == {log[i][1] : i \in {k \in 1..Len(log) : log[k][2] = c}}

\* The records in the order the validation ran on them.
Validated ==
    LET v == SelectSeq(log, LAMBDA e : e[1] = "validate")
    IN  [i \in 1..Len(v) |-> v[i][2]]

\* The i-th child of c in the engine's order.
NthChild(ci, c, i) ==
    CHOOSE d \in Calls(ci) :
        /\ ci[d].parent = c
        /\ Cardinality({e \in Calls(ci) : ci[e].parent = c /\ e < d}) = i - 1

(***************************************************************************)
(* C1                                                                      *)
(***************************************************************************)
ExactlySorted(ms, ci, c) ==
    /\ StrictlyAscending(ms)
    /\ Len(ms) = Cardinality(Sites(ci, c))
    /\ Range(ms) = {Canonical(ci, s) : s \in Sites(ci, c)}

C2_ValidationFirst ==
    /\ \A c \in Calls(call_info) :
          (returned[c] # None /\ Validation(c).kind = "Err") =>
              /\ Failed(c)
              /\ returned[c].err = Validation(c).err
              /\ StatementsOf(c) = {"validate"}
              /\ \A d \in Subtree(call_info, c) \ {c} :
                    StatementsOf(d) = {} /\ returned[d] = None
    /\ \A i \in 1..Len(log) :
          (\A k \in 1..(i - 1) : log[k][2] # log[i][2]) => log[i][1] = "validate"

\* C2's case: the validation of a root that has inner calls and messages failed.
C2_Witness ==
    /\ Done /\ Failed(1) /\ Validation(1).kind = "Err"
    /\ inner_calls(call_info, 1) # <<>>
    /\ Sites(call_info, 1) # {}

(***************************************************************************)
(* C3                                                                      *)
(***************************************************************************)
\* C3: once the translation of a record has failed, no ancestor of it returns an
\* Invocation: an ancestor that has returned has returned the same error, and
\* when the translation is over the root has returned it.
C3_ErrorPropagates ==
    \A d \in Calls(call_info) : \A a \in Ancestors(call_info, d) :
        Failed(d) =>
            /\ ~Translated(a)
            /\ Failed(a) => returned[a].err = returned[d].err
            /\ Done => Failed(a)
            /\ ~Done => (returned[a] # None \/ \E i \in 1..Len(stack) : stack[i].call = a)

\* C3's case: a record two levels below the root failed and the root returned.
C3_Witness ==
    /\ Done
    /\ \E d \in Calls(call_info) :
          /\ Failed(d)
          /\ Cardinality(Ancestors(call_info, d)) = 2
          /\ Validation(d).kind = "Err"
          /\ returned[1] = returned[d]

(***************************************************************************)
(* C4                                                                      *)
(***************************************************************************)
RECURSIVE Mirrors(_, _, _)
Mirrors(inv, ci, c) ==
    /\ inv.calldata = [i \in 1..Len(ci[c].calldata) |-> Felt(ci[c].calldata[i][2])]
    /\ inv.contract_address = Felt(ci[c].storage_address[2])
    /\ Len(inv.internal_calls) = Cardinality({d \in Calls(ci) : ci[d].parent = c})
    /\ \A i \in 1..Len(inv.internal_calls) :
          Mirrors(inv.internal_calls[i], ci, NthChild(ci, c, i))

\* C4: every Invocation try_from returns mirrors the call record's subtree: the
\* node is the translation of the record, it has as many internal calls as the
\* record has inner calls, and the i-th internal call mirrors the i-th inner call.
C4_StructuralFidelity ==
    \A c \in Calls(call_info) : Translated(c) => Mirrors(returned[c].val, call_info, c)

\* C4's case: a translated root with two inner calls, the second of which emitted
\* the message with the smallest order key.
C4_Witness ==
    /\ Done /\ Translated(1)
    /\ Len(returned[1].val.internal_calls) = 2
    /\ \E s \in Sites(call_info, 1) : s[1] = inner_calls(call_info, 1)[2]

C6_LocalMessagesOnly ==
    \A c \in Calls(call_info) :
        Translated(c) =>
            Range(returned[c].val.messages) \subseteq
                {Canonical(call_info, s) : s \in {t \in Sites(call_info, c) : t[1] = c}}

(***************************************************************************)
(* C7                                                                      *)
(***************************************************************************)
\* The message sequences the translation has produced: those of the active calls
\* and those of the returned Invocations.
Produced ==
    {stack[i].messages : i \in 1..Len(stack)} \cup
    {returned[c].val.messages : c \in {d \in Calls(call_info) : Translated(d)}}

\* The site a produced message was emitted at, as its payload tells.
SiteOf(m) == <<m.payload[1][2], m.payload[2][2]>>

FromEmitter(ms) ==
    \A i \in 1..Len(ms) :
        /\ SiteOf(ms[i]) \in Sites(call_info, 1)
        /\ ms[i] = Canonical(call_info, SiteOf(ms[i]))

\* C7: every message of every produced sequence carries the storage address of
\* the call record that emitted it, and that message's order and payload; and
\* so does every message the merge alone yields, on every record of every tree.
C7_FromAddress ==
    /\ \A ms \in Produced : FromEmitter(ms)
    /\ log = <<>> =>
          \A c \in Calls(call_info) : FromEmitter(ordered_l2_to_l1_messages(call_info, c))

\* C7's case: the root's sequence holds a message of a call whose address is not
\* the root's.
C7_Witness ==
    /\ Done /\ Translated(1)
    /\ \E i \in 1..Len(returned[1].val.messages) :
          LET s == SiteOf(returned[1].val.messages[i])
          IN  s[1] # 1 /\ call_info[s[1]].storage_address # call_info[1].storage_address

(***************************************************************************)
(* C8                                                                      *)
(***************************************************************************)
\* C8: the events of a translated node are the record's local events, one for
\* one and in the same order, each with the engine's order key as an integer.
C8_EventOrderVerbatim ==
    \A c \in Calls(call_info) :
        Translated(c) =>
            /\ Len(returned[c].val.events) = Len(call_info[c].events)
            /\ \A i \in 1..Len(returned[c].val.events) :
                  returned[c].val.events[i].order = call_info[c].events[i].order

(***************************************************************************)
(* C9                                                                      *)
(***************************************************************************)
\* The sites of c's subtree in the order the engine enumerates them: the records
\* in pre-order, the messages of a record in emission order.
Enumeration(ci, c) ==
    LET calls == into_iter(ci, c)
    IN  Flatten([i \in 1..Len(calls) |->
            [j \in 1..Len(ci[calls[i]].l2_to_l1_messages) |-> <<calls[i], j>>]])

\* The last message with order key k in an enumeration of sites.
LastMet(ci, en, k) ==
    Canonical(ci, en[CHOOSE x \in 1..Len(en) :
                        /\ KeyAt(ci, en[x]) = k
                        /\ \A y \in (x + 1)..Len(en) : KeyAt(ci, en[y]) # k])

OnePerKey(ms, ci, c) ==
    LET en == Enumeration(ci, c)
    IN  /\ StrictlyAscending(ms)
        /\ {ms[i].order : i \in 1..Len(ms)} = {KeyAt(ci, s) : s \in Sites(ci, c)}
        /\ \A i \in 1..Len(ms) : ms[i] = LastMet(ci, en, ms[i].order)

\* C9: the messages of every translated node, root or not, hold one message per
\* order key emitted in the node's subtree, strictly ascending, the message kept
\* for a key being the last one met in the enumeration of the subtree; and the
\* merge alone gives that on every record of every tree.
C9_SubtreeKeys ==
    /\ \A c \in Calls(call_info) :
          Translated(c) => OnePerKey(returned[c].val.messages, call_info, c)
    /\ log = <<>> =>
          \A c \in Calls(call_info) :
              OnePerKey(ordered_l2_to_l1_messages(call_info, c), call_info, c)

\* C9's case: a translated node below the root whose messages include one that a
\* call below it emitted.
C9_Witness ==
    /\ Done /\ Translated(1)
    /\ \E c \in Calls(call_info) \ {1} :
          \E i \in 1..Len(returned[c].val.messages) :
              SiteOf(returned[c].val.messages[i])[1] # c

(***************************************************************************)
(* C10                                                                     *)
(***************************************************************************)
PreOrder == into_iter(call_info, 1)

FailingInPreOrder == SelectSeq(PreOrder, LAMBDA c : Validation(c).kind = "Err")

\* C10: the validation runs once per record, parent before children and
\* children in engine order, up to the first record whose own subtree it rejects;
\* the root is translated exactly when it accepts every record's subtree, and
\* otherwise the root returns the error of the first rejected record in pre-order.
C10_ValidationPerRecord ==
    LET pre == PreOrder
        val == Validated
    IN  /\ Len(val) <= Len(pre)
        /\ val = SubSeq(pre, 1, Len(val))
        /\ \A i \in 1..(Len(val) - 1) : Validation(val[i]).kind = "Ok"
        /\ Done =>
              LET failing == FailingInPreOrder
              IN  /\ Translated(1) <=> failing = <<>>
                  /\ Failed(1) <=> failing # <<>>
                  /\ Failed(1) => returned[1].err = Validation(failing[1]).err

\* C10's case: the validation accepts the root's aggregate and rejects the
\* subtree of a record below it, and the translation has ended.
C10_Witness ==
    /\ Done /\ Failed(1)
    /\ Validation(1).kind = "Ok"
    /\ \E d \in Calls(call_info) \ {1} : Validation(d).kind = "Err"

====
